---- MODULE Spec2Model ----
(***************************************************************************)
(* Model of posts.py: HSS column selection (select_hss_size), cap/bearing  *)
(* plate and weld sizing (calculate_plates) and the per-level stack driver *)
(* (process_column_stack).                                                 *)
(*                                                                         *)
(* Numbers.  The program computes with Python floats.  Under Spec,         *)
(* SpecSelect and SpecPlates a number is an exact rational <<n, d>> with   *)
(* d > 0 and gcd(n, d) = 1, and every +, -, *, / of the source is the      *)
(* exact operation.  Square roots are never materialised: every use of a   *)
(* root in the source is a comparison or a rounding of a non-negative      *)
(* quantity, which is decided on the squares.  SpecFloat re-runs the       *)
(* bearing-length lines of calculate_plates with every operation rounded   *)
(* to FloatBits significant bits (round-half-even), which is what binary   *)
(* floating point does at 53 bits.                                         *)
(***************************************************************************)
EXTENDS Integers, Sequences, FiniteSets, TLC

\* ------------------------------------------------------------ rationals

Abs(a) == IF a < 0 THEN -a ELSE a

RECURSIVE GCD(_, _)
GCD(a, b) == IF b = 0 THEN a ELSE GCD(b, a % b)

\* The rational n/d in lowest terms (d # 0).
R(n, d) ==
    LET g == GCD(Abs(n), Abs(d))
        s == IF d < 0 THEN -1 ELSE 1
    IN  <<(s * n) \div g, (s * d) \div g>>

I(n) == <<n, 1>>

RNeg(x) == <<-x[1], x[2]>>

RAdd(x, y) ==
    LET g == GCD(x[2], y[2])
    IN  R(x[1] * (y[2] \div g) + y[1] * (x[2] \div g), (x[2] \div g) * y[2])

RSub(x, y) == RAdd(x, RNeg(y))

RMul(x, y) ==
    LET g1 == GCD(Abs(x[1]), y[2])
        g2 == GCD(Abs(y[1]), x[2])
    IN  R((x[1] \div g1) * (y[1] \div g2), (x[2] \div g2) * (y[2] \div g1))

\* x / y for y # 0; the callers raise ZeroDivisionError before using it at 0.
RDiv(x, y) ==
    RMul(x, IF y[1] > 0 THEN <<y[2], y[1]>> ELSE <<-y[2], -y[1]>>)

\* The sign of a/b - c/d (b, d > 0), by continued fractions: the integer
\* parts decide, or else the reciprocals of the fractional parts do.
RECURSIVE Cmp(_, _, _, _)
Cmp(a, b, c, d) ==
    LET qa == a \div b
        qc == c \div d
        ra == a - qa * b
        rc == c - qc * d
    IN  IF qa < qc THEN -1
        ELSE IF qa > qc THEN 1
        ELSE IF ra = 0 /\ rc = 0 THEN 0
        ELSE IF ra = 0 THEN -1
        ELSE IF rc = 0 THEN 1
        ELSE Cmp(d, rc, b, ra)

RLeq(x, y) == Cmp(x[1], x[2], y[1], y[2]) <= 0

RLt(x, y) == ~RLeq(y, x)

RIsZero(x) == x[1] = 0

\* Python's max(a, b).
RMax(x, y) == IF RLt(x, y) THEN y ELSE x

\* math.ceil: the least integer >= x.
Ceil(x) == -((-x[1]) \div x[2])

\* Python 3 round(x): the nearest integer, a tie going to the even one.
Round(x) ==
    LET f == x[1] \div x[2]
        twice == 2 * (x[1] - f * x[2])
    IN  IF twice < x[2] THEN f
        ELSE IF twice > x[2] THEN f + 1
        ELSE IF f % 2 = 0 THEN f ELSE f + 1

\* Whether x is a whole multiple of 1/k.
IsMultipleOf(x, k) == k % x[2] = 0

\* ------------------------------------------------------- select_hss_size

\* The catalog: (designation, A, S, B_hss, weight).
hss_sizes ==
    << [hss |-> "HSS6x6x3/16",  A |-> R(430, 100),  S |-> R(103, 10), B_hss |-> I(6),  wt |-> R(125, 10)],
       [hss |-> "HSS8x8x3/16",  A |-> R(575, 100),  S |-> R(174, 10), B_hss |-> I(8),  wt |-> R(168, 10)],
       [hss |-> "HSS8x8x1/4",   A |-> R(756, 100),  S |-> R(224, 10), B_hss |-> I(8),  wt |-> I(22)],
       [hss |-> "HSS10x10x1/4", A |-> R(952, 100),  S |-> R(352, 10), B_hss |-> I(10), wt |-> R(275, 10)],
       [hss |-> "HSS12x12x1/4", A |-> R(115, 10),   S |-> R(508, 10), B_hss |-> I(12), wt |-> I(33)] >>

K == I(1)
r_factor == R(4, 10)
SlendernessLimit == I(200)
InteractionLimit == R(9, 10)

\* slenderness = K * L / (r_factor * math.sqrt(A)) > 200, decided on the
\* squares: r_factor * sqrt(A) > 0, so the quotient exceeds the (positive)
\* limit iff K*L > 0 and (K*L)^2 > (limit * r_factor)^2 * A.
SlendernessExceeds(L, A) ==
    LET KL  == RMul(K, L)
        lim == RMul(SlendernessLimit, r_factor)
    IN  /\ KL[1] > 0
        /\ RLt(RMul(RMul(lim, lim), A), RMul(KL, KL))

\* A mutant of interaction: the eccentricity is taken as B_hss / 2, the
\* half beam width is not subtracted.
interaction_full_ecc(P_total, beam_load, beam_width, F_y, phi_c, A, S, B_hss) ==
    LET phi_Pn == RMul(RMul(phi_c, F_y), A)
        e      == RDiv(B_hss, I(2))
        M_u    == RMul(beam_load, e)
        phi_Mn == RMul(RMul(phi_c, F_y), S)
    IN  RAdd(RDiv(P_total, phi_Pn), RDiv(M_u, phi_Mn))

\* interaction = P_total / phi_Pn + M_u / phi_Mn
interaction(P_total, beam_load, beam_width, F_y, phi_c, A, S, B_hss) ==
    LET phi_Pn == RMul(RMul(phi_c, F_y), A)
        e      == RSub(RDiv(B_hss, I(2)), RDiv(beam_width, I(2)))
        M_u    == RMul(beam_load, e)
        phi_Mn == RMul(RMul(phi_c, F_y), S)
    IN  RAdd(RDiv(P_total, phi_Pn), RDiv(M_u, phi_Mn))

\* A mutant of Accepts: the unity limit, without the 10% margin.
AcceptsUnity(ratio) == RLeq(ratio, I(1))

\* if interaction <= 0.9: return
Accepts(ratio) == RLeq(ratio, InteractionLimit)

NoSection == [hss |-> "None", idx |-> 0]

\* The for loop over hss_sizes from entry k on.
RECURSIVE ScanSizes(_, _, _, _, _, _, _)
ScanSizes(k, P_total, L, beam_load, beam_width, F_y, phi_c) ==
    IF k > Len(hss_sizes) THEN NoSection
    ELSE LET c == hss_sizes[k]
         IN  IF SlendernessExceeds(L, c.A)
             THEN ScanSizes(k + 1, P_total, L, beam_load, beam_width, F_y, phi_c)
             ELSE IF Accepts(interaction(P_total, beam_load, beam_width, F_y, phi_c,
                                         c.A, c.S, c.B_hss))
                  THEN [hss |-> c.hss, idx |-> k, A |-> c.A, S |-> c.S, B_hss |-> c.B_hss]
                  ELSE ScanSizes(k + 1, P_total, L, beam_load, beam_width, F_y, phi_c)

\* A mutant of select_hss_size: the scan misses the first catalog entry.
select_hss_size_skip_first(P_total, L, beam_load, beam_width, F_y, phi_c) ==
    ScanSizes(2, P_total, L, beam_load, beam_width, F_y, phi_c)

select_hss_size(P_total, L, beam_load, beam_width, F_y, phi_c) ==
    ScanSizes(1, P_total, L, beam_load, beam_width, F_y, phi_c)

F_y_hss == I(46)
phi_c_default == R(9, 10)

\* ------------------------------------------------------ calculate_plates

\* The greatest k >= from with k^2 <= X (X >= from^2).
RECURSIVE SqrtFloorFrom(_, _)
SqrtFloorFrom(k, X) ==
    IF RLeq(I((k + 1) * (k + 1)), X) THEN SqrtFloorFrom(k + 1, X) ELSE k

\* round(sqrt(X)) for a rational X >= 0: the nearest integer to the root, a
\* tie going to the even one.  sqrt(X) < k + 1/2 iff 4X < (2k+1)^2.
RoundSqrt(X) ==
    LET k    == SqrtFloorFrom(0, X)
        four == RMul(I(4), X)
        mid  == I((2 * k + 1) * (2 * k + 1))
    IN  IF RLt(four, mid) THEN k
        ELSE IF RLt(mid, four) THEN k + 1
        ELSE IF k % 2 = 0 THEN k ELSE k + 1

\* A_bearing = P_s * 1000 / lvl_bearing; N = A_bearing / beam_width;
\* N = max(N, B_hss); N = ceil(N * 4) / 4      (lvl_bearing, beam_width # 0)
BearingLength(P_s, lvl_bearing, beam_width, B_hss) ==
    LET A_bearing == RDiv(RMul(P_s, I(1000)), lvl_bearing)
        N0        == RDiv(A_bearing, beam_width)
        N1        == RMax(N0, B_hss)
    IN  R(Ceil(RMul(N1, I(4))), 4)

\* B = max(B_hss + 2, beam_width + 2)
CapWidth(B_hss, beam_width) == RMax(RAdd(B_hss, I(2)), RAdd(beam_width, I(2)))

\* l = max(m, n, n_ecc)
CantileverLength(B, B_hss, beam_width, beam_offset) ==
    LET d             == B_hss
        m             == RDiv(RSub(B, RMul(R(95, 100), d)), I(2))
        n             == RDiv(RSub(B, RMul(R(8, 10), beam_width)), I(2))
        beam_centroid == RAdd(beam_offset, RDiv(beam_width, I(2)))
        n_ecc         == RMax(RSub(B_hss, RAdd(beam_offset, beam_width)), beam_centroid)
    IN  RMax(RMax(m, n), n_ecc)

MinCapThickness == R(3, 8)
Eighth == R(1, 8)

\* A mutant of CapThickness: the defensive bump of line 88-89 is missing.
CapThicknessNoBump(l, q) ==
    LET sq == RMul(RMul(I(64), RMul(l, l)), q)
        r8 == IF l[1] < 0 THEN -RoundSqrt(sq) ELSE RoundSqrt(sq)
    IN  RMax(R(r8, 8), MinCapThickness)

\* t_cap = l * q ** 0.5 for q = 2 * (P_beam + P_upper) / denominator >= 0;
\* t_cap = max(round(t_cap * 8) / 8, 0.375); if t_cap < l * q ** 0.5:
\* t_cap += 0.125.  t_cap * 8 = sign(l) * sqrt(64 * l^2 * q); the rounded
\* t_cap is >= 3/8 > 0, so it lies below l * sqrt(q) iff l > 0 and
\* t_cap^2 < l^2 * q.
CapThickness(l, q) ==
    LET sq == RMul(RMul(I(64), RMul(l, l)), q)
        r8 == IF l[1] < 0 THEN -RoundSqrt(sq) ELSE RoundSqrt(sq)
        t0 == RMax(R(r8, 8), MinCapThickness)
    IN  IF l[1] > 0 /\ RLt(RMul(t0, t0), RMul(RMul(l, l), q))
        THEN RAdd(t0, Eighth)
        ELSE t0

\* 0.75 * 1.8 * F_y * width, the bearing-plate capacity per inch of thickness.
BearingCapacityPerInch(F_y, bearing_width) ==
    RMul(RMul(RMul(R(75, 100), R(18, 10)), F_y), bearing_width)

\* t_bearing = 1.0; if phi_Rn < P_upper / 2: t_bearing = (P_upper / 2) /
\* (0.75 * 1.8 * F_y * bearing_width), rounded to the nearest 1/8 and bumped
\* by 1/8 when that lies below the quotient.  (The caller raises
\* ZeroDivisionError when the resize divides by 0.)
BearingThickness(P_upper, F_y, bearing_width) ==
    LET cap    == BearingCapacityPerInch(F_y, bearing_width)
        phi_Rn == RMul(cap, I(1))
        half   == RDiv(P_upper, I(2))
    IN  IF RLt(phi_Rn, half)
        THEN LET raw == RDiv(half, cap)
                 t0  == R(Round(RMul(raw, I(8))), 8)
             IN  IF RLt(t0, raw) THEN RAdd(t0, Eighth) ELSE t0
        ELSE I(1)

\* 0.75 * 0.707 * 0.6 * 70, the weld capacity per inch of length and size.
WeldCapacityPerInch == RMul(RMul(RMul(R(75, 100), R(707, 1000)), R(6, 10)), I(70))

MinWeld == R(3, 16)

\* max(q_cap, q_bearing)                                        (B_hss # 0)
WeldDemand(P_beam, P_upper, B_hss) ==
    LET q_cap     == RDiv(RAdd(P_beam, P_upper), RMul(I(4), B_hss))
        q_bearing == RDiv(P_upper, RMul(I(4), B_hss))
    IN  RMax(q_cap, q_bearing)

\* weld_size = 3/16; if max(q_cap, q_bearing) > phi_Rn_weld:
\* weld_size = round(max(q_cap, q_bearing) / (0.75*0.707*0.6*70) * 16) / 16
WeldSize(P_beam, P_upper, B_hss) ==
    LET phi_Rn_weld == RMul(WeldCapacityPerInch, MinWeld)
        demand      == WeldDemand(P_beam, P_upper, B_hss)
    IN  IF RLt(phi_Rn_weld, demand)
        THEN R(Round(RMul(RDiv(demand, WeldCapacityPerInch), I(16))), 16)
        ELSE MinWeld

\* A mutant of ErrorResult: the exception is not caught and leaves the
\* function.
ErrorEscapes(msg) == "Raised" :> msg

\* except Exception as e: return {"Error": str(e)}
ErrorResult(msg) == "Error" :> msg

DivisionByZero == "division by zero"
InvalidPlate == "Invalid plate dimensions."
ComplexRound == "type complex doesn't define __round__ method"
StressExceeded == "Bearing stress exceeds allowable"

\* The body of calculate_plates, statement by statement; every raise and
\* every division by zero leaves through the except clause.  The values of
\* a successful mapping are the numbers its strings are formatted from.
calculate_plates(P_beam, P_upper, B_hss, beam_width, beam_height, beam_offset, lvl_bearing, F_y, phi, load_factor) ==
    IF RIsZero(load_factor) \/ RIsZero(lvl_bearing) \/ RIsZero(beam_width)
    THEN ErrorResult(DivisionByZero)
    ELSE
    LET P_s         == RDiv(P_beam, load_factor)
        N           == BearingLength(P_s, lvl_bearing, beam_width, B_hss)
        B           == CapWidth(B_hss, beam_width)
        l           == CantileverLength(B, B_hss, beam_width, beam_offset)
        denominator == RMul(RMul(RMul(phi, F_y), B), N)
    IN  IF RIsZero(denominator) THEN ErrorResult(InvalidPlate)
        ELSE
        LET q == RDiv(RMul(I(2), RAdd(P_beam, P_upper)), denominator)
        IN  IF q[1] < 0 THEN ErrorResult(ComplexRound)
            ELSE
            LET t_cap          == CapThickness(l, q)
                bearing_width  == B_hss
                bearing_height == beam_height
                resize         == RLt(BearingCapacityPerInch(F_y, bearing_width),
                                      RDiv(P_upper, I(2)))
            IN  IF resize /\ RIsZero(BearingCapacityPerInch(F_y, bearing_width))
                THEN ErrorResult(DivisionByZero)
                ELSE
                LET t_bearing == BearingThickness(P_upper, F_y, bearing_width)
                IN  IF RIsZero(RMul(beam_width, N)) THEN ErrorResult(DivisionByZero)
                    ELSE
                    LET bearing_stress == RDiv(RMul(P_s, I(1000)), RMul(beam_width, N))
                    IN  IF RLt(lvl_bearing, bearing_stress)
                        THEN ErrorResult(StressExceeded)
                        ELSE IF RIsZero(B_hss) THEN ErrorResult(DivisionByZero)
                        ELSE ("Cap Plate" :> <<B, N, t_cap>>)
                             @@ ("Bearing Plates" :> <<bearing_width, bearing_height, t_bearing>>)
                             @@ ("LVL Bearing Stress" :> bearing_stress)
                             @@ ("Weld Size" :> WeldSize(P_beam, P_upper, B_hss))

beam_offset_default == I(0)
lvl_bearing_default == I(500)
F_y_plate == I(36)
phi_default == R(9, 10)
load_factor_default == R(16, 10)

\* --------------------------------------- binary floating point, FloatBits

\* The significand width of the floating-point model (binary64 has 53).
FloatBits == 8

RECURSIVE Pow2(_)
Pow2(n) == IF n = 0 THEN 1 ELSE 2 * Pow2(n - 1)

\* x > 0 scaled by a power of two into [2^(FloatBits-1), 2^FloatBits):
\* <<scaled x, exponent>>.
RECURSIVE Normalise(_, _)
Normalise(x, e) ==
    IF RLeq(I(Pow2(FloatBits)), x) THEN Normalise(RDiv(x, I(2)), e + 1)
    ELSE IF RLt(x, I(Pow2(FloatBits - 1))) THEN Normalise(RMul(x, I(2)), e - 1)
    ELSE <<x, e>>

\* The float nearest to the real x: FloatBits significant bits, a tie going
\* to the even significand.
Fl(x) ==
    IF x[1] = 0 THEN x
    ELSE LET n == Normalise(<<Abs(x[1]), x[2]>>, 0)
             m == Round(n[1])
             v == IF n[2] >= 0 THEN I(m * Pow2(n[2])) ELSE R(m, Pow2(-n[2]))
         IN  IF x[1] < 0 THEN RNeg(v) ELSE v

\* Lines 66-70 in floating point: every operation rounds its result.
FlBearingLength(P_beam, load_factor, lvl_bearing, beam_width, B_hss) ==
    LET P_s       == Fl(RDiv(P_beam, load_factor))
        A_bearing == Fl(RDiv(Fl(RMul(P_s, I(1000))), lvl_bearing))
        N0        == Fl(RDiv(A_bearing, beam_width))
        N1        == RMax(N0, B_hss)
    IN  Fl(R(Ceil(Fl(RMul(N1, I(4)))), 4))

\* Line 104 in floating point.
FlBearingStress(P_beam, load_factor, beam_width, N) ==
    LET P_s == Fl(RDiv(P_beam, load_factor))
    IN  Fl(RDiv(Fl(RMul(P_s, I(1000))), Fl(RMul(beam_width, N))))

\* ------------------------------------------------------------- the state

VARIABLES
    pc,               \* where process_column_stack is
    cases,            \* its argument: the levels, bottom first
    lvl_bearing,      \* its argument
    cumulative_load,  \* the running sum of the reversed scan
    total_loads,      \* the cumulative total of each level scanned so far
    j,                \* the level the reversed scan reads next (0: finished)
    i,                \* the level the main loop processes next
    results,          \* the list returned
    calls,            \* the calls made so far, with their arguments
    sel,              \* a direct call of select_hss_size and its result
    pl,               \* a direct call of calculate_plates and its result
    fb                \* a floating-point run of the bearing lines

vars == <<pc, cases, lvl_bearing, cumulative_load, total_loads, j, i, results,
          calls, sel, pl, fb>>

NoCall == [called |-> FALSE]

\* ------------------------------------------------- process_column_stack

\* The most levels of an enumerated stack.
MaxLevels == 3

Case(post_length, beam_load, beam_width, beam_height) ==
    [post_length |-> post_length, beam_load |-> beam_load,
     beam_width |-> beam_width, beam_height |-> beam_height]

\* The four levels of the example of the source.
ExampleCases ==
    << Case(I(120), I(56), I(3), I(12)),
       Case(I(96), I(40), R(35, 10), I(14)),
       Case(I(144), I(20), R(25, 10), I(10)),
       Case(I(144), R(1, 10), R(25, 10), I(10)) >>

\* The cases a stack is built from: the example's, one whose load no
\* catalog section carries, one whose beam width is 0 (calculate_plates
\* divides by it).
CaseSet ==
    { ExampleCases[k] : k \in 1..4 }
        \cup { Case(I(120), I(600), I(3), I(12)), Case(I(96), I(40), I(0), I(14)) }

\* The stacks processed: every stack of at most MaxLevels cases, and the
\* example of the source.
Stacks == UNION { [1..n -> CaseSet] : n \in 0..MaxLevels } \cup { ExampleCases }

Init ==
    /\ pc = "accumulate"
    /\ cases \in Stacks
    /\ lvl_bearing = lvl_bearing_default
    /\ cumulative_load = I(0)
    /\ total_loads = <<>>
    /\ j = Len(cases)
    /\ i = 1
    /\ results = <<>>
    /\ calls = <<>>
    /\ sel = NoCall
    /\ pl = NoCall
    /\ fb = NoCall

\* A mutant of Accumulate: total_loads.append instead of insert(0, ...).
AccumulateAppend ==
    /\ pc = "accumulate"
    /\ j >= 1
    /\ cumulative_load' = RAdd(cumulative_load, cases[j].beam_load)
    /\ total_loads' = Append(total_loads, cumulative_load')
    /\ j' = j - 1
    /\ UNCHANGED <<pc, cases, lvl_bearing, i, results, calls, sel, pl, fb>>

\* for _, beam_load, _, _ in reversed(cases): one iteration.
Accumulate ==
    /\ pc = "accumulate"
    /\ j >= 1
    /\ cumulative_load' = RAdd(cumulative_load, cases[j].beam_load)
    /\ total_loads' = <<cumulative_load'>> \o total_loads
    /\ j' = j - 1
    /\ UNCHANGED <<pc, cases, lvl_bearing, i, results, calls, sel, pl, fb>>

\* The reversed scan is over: the main loop starts at level 1.
StartLevels ==
    /\ pc = "accumulate"
    /\ j = 0
    /\ pc' = "levels"
    /\ i' = 1
    /\ UNCHANGED <<cases, lvl_bearing, cumulative_load, total_loads, j, results,
                   calls, sel, pl, fb>>

NoHssError == "No suitable HSS size found"

SelectCall(level, P_total, c) ==
    [fn |-> "select_hss_size", level |-> level, P_total |-> P_total,
     L |-> c.post_length, beam_load |-> c.beam_load, beam_width |-> c.beam_width]

PlatesCall(level, P_upper, B_hss, c) ==
    [fn |-> "calculate_plates", level |-> level, P_beam |-> c.beam_load,
     P_upper |-> P_upper, B_hss |-> B_hss, beam_width |-> c.beam_width,
     beam_height |-> c.beam_height]

\* P_upper = P_total - beam_load
UpperLoad(P_total, beam_load) == RSub(P_total, beam_load)

\* A mutant of NoSectionFound: the loop is left (break) instead of continued.
NoSectionFoundBreak(P_total, c) ==
    /\ results' = Append(results, [level |-> i, Error |-> NoHssError])
    /\ calls' = Append(calls, SelectCall(i, P_total, c))
    /\ i' = i + 1
    /\ pc' = "done"

\* if hss is None: results.append(error); continue
NoSectionFound(P_total, c) ==
    /\ results' = Append(results, [level |-> i, Error |-> NoHssError])
    /\ calls' = Append(calls, SelectCall(i, P_total, c))
    /\ i' = i + 1
    /\ pc' = pc

\* One iteration of the main loop: level i.
ProcessLevel ==
    /\ pc = "levels"
    /\ i <= Len(cases)
    /\ LET c       == cases[i]
           P_total == total_loads[i]
           s       == select_hss_size(P_total, c.post_length, c.beam_load,
                                      c.beam_width, F_y_hss, phi_c_default)
       IN  \/ /\ s = NoSection
              /\ NoSectionFound(P_total, c)
           \/ /\ s # NoSection
              /\ LET P_upper == UpperLoad(P_total, c.beam_load)
                     plate_design ==
                         calculate_plates(c.beam_load, P_upper, s.B_hss, c.beam_width,
                                          c.beam_height, beam_offset_default,
                                          lvl_bearing, F_y_plate, phi_default,
                                          load_factor_default)
                 IN  /\ results' = Append(results, [level |-> i, HSS |-> s.hss,
                                                    design |-> plate_design])
                     /\ calls' = calls \o <<SelectCall(i, P_total, c),
                                            PlatesCall(i, P_upper, s.B_hss, c)>>
                     /\ i' = i + 1
                     /\ pc' = pc
    /\ UNCHANGED <<cases, lvl_bearing, cumulative_load, total_loads, j,
                   sel, pl, fb>>

\* return results
Return ==
    /\ pc = "levels"
    /\ i > Len(cases)
    /\ pc' = "done"
    /\ UNCHANGED <<cases, lvl_bearing, cumulative_load, total_loads, j, i,
                   results, calls, sel, pl, fb>>

Next == Accumulate \/ StartLevels \/ ProcessLevel \/ Return

Spec == Init /\ [][Next]_vars

\* --------------------------------------------- the functions called alone

\* No stack is being processed.
IdleStack ==
    /\ pc = "idle"
    /\ cases = <<>>
    /\ lvl_bearing = lvl_bearing_default
    /\ cumulative_load = I(0)
    /\ total_loads = <<>>
    /\ j = 0
    /\ i = 1
    /\ results = <<>>
    /\ calls = <<>>

\* Arguments of select_hss_size (kips, in, ksi).
SelPTotalSet == { I(0), R(601, 10), R(1161, 10), I(150), I(165), I(400), I(10000) }
SelLengthSet == { I(0), I(96), I(120), I(168), I(200), I(220), I(272) }
SelBeamLoadSet == { I(0), I(56), I(100) }
SelBeamWidthSet == { R(25, 10), I(3), R(35, 10), I(10) }
SelFySet == { I(46), I(50) }
SelPhiSet == { R(85, 100), R(9, 10) }

\* A caller is about to call select_hss_size with arguments of the sets.
InitSelect ==
    /\ IdleStack
    /\ sel \in [called : {FALSE}, P_total : SelPTotalSet, L : SelLengthSet,
                beam_load : SelBeamLoadSet, beam_width : SelBeamWidthSet,
                F_y : SelFySet, phi_c : SelPhiSet]
    /\ pl = NoCall
    /\ fb = NoCall

CallSelect ==
    /\ ~sel.called
    /\ sel' = [called |-> TRUE, P_total |-> sel.P_total, L |-> sel.L,
               beam_load |-> sel.beam_load, beam_width |-> sel.beam_width,
               F_y |-> sel.F_y, phi_c |-> sel.phi_c,
               res |-> select_hss_size(sel.P_total, sel.L, sel.beam_load,
                                       sel.beam_width, sel.F_y, sel.phi_c)]
    /\ UNCHANGED <<pc, cases, lvl_bearing, cumulative_load, total_loads, j, i,
                   results, calls, pl, fb>>

SpecSelect == InitSelect /\ [][CallSelect]_vars

\* Arguments of calculate_plates, the zero and negative ones included.
PlPBeamSet == { R(1, 10), I(20), I(40), I(56) }
PlPUpperSet == { I(-100), I(0), R(201, 10), R(601, 10), I(620), I(678), I(700) }
PlBHssSet == { I(0), I(6), I(8), I(10), I(12) }
PlBeamWidthSet == { I(0), R(25, 10), I(3), R(35, 10) }
PlBeamHeightSet == { I(12) }
PlLvlBearingSet == { I(-500), I(0), I(500) }
PlFySet == { I(0), I(36) }
PlPhiSet == { R(9, 10) }
PlLoadFactorSet == { I(0), R(16, 10) }

\* A caller is about to call calculate_plates with arguments of the sets.
InitPlates ==
    /\ IdleStack
    /\ sel = NoCall
    /\ pl \in [called : {FALSE}, P_beam : PlPBeamSet, P_upper : PlPUpperSet,
               B_hss : PlBHssSet, beam_width : PlBeamWidthSet,
               beam_height : PlBeamHeightSet, beam_offset : {beam_offset_default},
               lvl_bearing : PlLvlBearingSet, F_y : PlFySet, phi : PlPhiSet,
               load_factor : PlLoadFactorSet]
    /\ fb = NoCall

CallPlates ==
    /\ ~pl.called
    /\ pl' = [called |-> TRUE, P_beam |-> pl.P_beam, P_upper |-> pl.P_upper,
              B_hss |-> pl.B_hss, beam_width |-> pl.beam_width,
              beam_height |-> pl.beam_height, beam_offset |-> pl.beam_offset,
              lvl_bearing |-> pl.lvl_bearing, F_y |-> pl.F_y, phi |-> pl.phi,
              load_factor |-> pl.load_factor,
              res |-> calculate_plates(pl.P_beam, pl.P_upper, pl.B_hss,
                                       pl.beam_width, pl.beam_height,
                                       pl.beam_offset, pl.lvl_bearing, pl.F_y,
                                       pl.phi, pl.load_factor)]
    /\ UNCHANGED <<pc, cases, lvl_bearing, cumulative_load, total_loads, j, i,
                   results, calls, sel, fb>>

SpecPlates == InitPlates /\ [][CallPlates]_vars

\* Positive arguments of the bearing lines, as the floats nearest to them:
\* beam loads 0.5, 1.0, ..., 60 kips.
FlPBeamSet == { Fl(R(k, 2)) : k \in 1..120 }
FlBeamWidthSet == { Fl(R(23, 10)), Fl(R(25, 10)), Fl(I(3)), Fl(R(35, 10)), Fl(R(37, 10)) }
FlBHssSet == { Fl(I(6)), Fl(I(8)) }

InitFloat ==
    /\ IdleStack
    /\ sel = NoCall
    /\ pl = NoCall
    /\ fb \in [called : {FALSE}, P_beam : FlPBeamSet, beam_width : FlBeamWidthSet,
               B_hss : FlBHssSet, lvl_bearing : {Fl(lvl_bearing_default)},
               load_factor : {Fl(load_factor_default)}]

\* Lines 66-70 and 104-106 of calculate_plates, in floating point.
CallBearingFloat ==
    /\ ~fb.called
    /\ LET N      == FlBearingLength(fb.P_beam, fb.load_factor, fb.lvl_bearing,
                                     fb.beam_width, fb.B_hss)
           stress == FlBearingStress(fb.P_beam, fb.load_factor, fb.beam_width, N)
       IN  fb' = [called |-> TRUE, P_beam |-> fb.P_beam, beam_width |-> fb.beam_width,
                  B_hss |-> fb.B_hss, lvl_bearing |-> fb.lvl_bearing,
                  load_factor |-> fb.load_factor,
                  N |-> N, bearing_stress |-> stress,
                  raised |-> RLt(fb.lvl_bearing, stress)]
    /\ UNCHANGED <<pc, cases, lvl_bearing, cumulative_load, total_loads, j, i,
                   results, calls, sel, pl>>

SpecFloat == InitFloat /\ [][CallBearingFloat]_vars

\* ============================================================ the claims

FourKeys == {"Cap Plate", "Bearing Plates", "LVL Bearing Stress", "Weld Size"}
IsError(design) == DOMAIN design = {"Error"}
IsDesign(design) == DOMAIN design = FourKeys

\* b_k + b_(k+1) + ... + b_n of a stack, summed from the bottom up.
RECURSIVE SumFrom(_, _)
SumFrom(stack, k) ==
    IF k > Len(stack) THEN I(0)
    ELSE RAdd(stack[k].beam_load, SumFrom(stack, k + 1))

\* C3: at every level i processed, select_hss_size is called with
\* P_total = b_i + ... + b_n, and calculate_plates (when it is called) with
\* P_upper = P_total - b_i = b_(i+1) + ... + b_n, which is 0 at the top level.
C3_CumulativeLoads ==
    /\ \A k \in 1..Len(results) :
          \E n \in 1..Len(calls) :
              calls[n].fn = "select_hss_size" /\ calls[n].level = k
    /\ \A n \in 1..Len(calls) :
          LET c == calls[n]
          IN  /\ c.fn = "select_hss_size" =>
                    c.P_total = SumFrom(cases, c.level)
              /\ c.fn = "calculate_plates" =>
                    /\ c.P_upper = RSub(SumFrom(cases, c.level), cases[c.level].beam_load)
                    /\ c.P_upper = SumFrom(cases, c.level + 1)
                    /\ c.level = Len(cases) => c.P_upper = I(0)

\* A stack of three levels is finished; plates were sized for the bottom
\* level under a positive load from above and for the top level.
C3_Witness ==
    /\ pc = "done"
    /\ Len(cases) = 3
    /\ \E n \in 1..Len(calls) :
          calls[n].fn = "calculate_plates" /\ calls[n].level = 1
              /\ RLt(I(0), calls[n].P_upper)
    /\ \E n \in 1..Len(calls) :
          calls[n].fn = "calculate_plates" /\ calls[n].level = 3

\* What level k of a stack yields on its own: from its case and the loads
\* of the levels from k up, whatever the levels below it gave.
LevelOutcome(stack, k, lvl) ==
    LET c == stack[k]
        P == SumFrom(stack, k)
        s == select_hss_size(P, c.post_length, c.beam_load, c.beam_width,
                             F_y_hss, phi_c_default)
    IN  IF s = NoSection
        THEN [level |-> k, Error |-> NoHssError]
        ELSE [level |-> k, HSS |-> s.hss,
              design |-> calculate_plates(c.beam_load, RSub(P, c.beam_load), s.B_hss,
                                          c.beam_width, c.beam_height,
                                          beam_offset_default, lvl, F_y_plate,
                                          phi_default, load_factor_default)]

\* C4: the results are one per case, in input order, labelled Level 1..n;
\* a level without a section (or whose plate design is an error mapping)
\* gets its error record, and every other level its own outcome: when the
\* function returns, no case is missing.
C4_OneResultPerCase ==
    /\ Len(results) <= Len(cases)
    /\ \A k \in 1..Len(results) :
          /\ results[k].level = k
          /\ results[k] = LevelOutcome(cases, k, lvl_bearing)
    /\ pc = "done" => Len(results) = Len(cases)

\* A finished stack in which a level got the no-section error, a level the
\* error mapping of calculate_plates, and a later level a full design.
C4_Witness ==
    /\ pc = "done"
    /\ \E a, b, c \in 1..Len(results) :
          /\ a < c /\ b < c
          /\ "Error" \in DOMAIN results[a]
          /\ "design" \in DOMAIN results[b] /\ IsError(results[b].design)
          /\ "design" \in DOMAIN results[c] /\ IsDesign(results[c].design)

\* The example's Level 1 has been processed.
ExampleLevel1Done == cases = ExampleCases /\ Len(results) >= 1

\* The calls of the example's Level 1 carry P_total = 116.1, P_upper = 60.1.
ExampleLevel1Calls ==
    /\ calls[1] = SelectCall(1, R(1161, 10), ExampleCases[1])
    /\ Len(calls) >= 2
    /\ calls[2].fn = "calculate_plates" /\ calls[2].level = 1
    /\ calls[2].P_upper = R(601, 10)
    /\ calls[2].beam_height = I(12)

\* C2 as stated: Level 1 of the example (L=120, beam_load=56, beam_width=3,
\* P_total=116.1) selects HSS8x8x1/4, and its plate design (P_upper=60.1)
\* is no error, with a cap plate at least 10 in wide and bearing plates at
\* least 1.0 in thick.
C2_AsStated ==
    ExampleLevel1Done =>
        /\ ExampleLevel1Calls
        /\ "design" \in DOMAIN results[1]
        /\ results[1].HSS = "HSS8x8x1/4"
        /\ IsDesign(results[1].design)
        /\ RLeq(I(10), results[1].design["Cap Plate"][1])
        /\ RLeq(I(1), results[1].design["Bearing Plates"][3])

\* C2 amended: Level 1 of the example selects HSS6x6x3/16, the first
\* catalog entry, and its plate design is no error, with a cap plate 8 in
\* wide (less than 10) and bearing plates at least 1.0 in thick.
C2_Amended ==
    ExampleLevel1Done =>
        /\ ExampleLevel1Calls
        /\ "design" \in DOMAIN results[1]
        /\ results[1].HSS = "HSS6x6x3/16"
        /\ results[1].HSS = hss_sizes[1].hss
        /\ IsDesign(results[1].design)
        /\ results[1].design["Cap Plate"][1] = I(8)
        /\ RLeq(I(1), results[1].design["Bearing Plates"][3])

C2_Witness == cases = ExampleCases /\ pc = "done" /\ Len(results) = 4

\* --- select_hss_size, called alone (SpecSelect)

\* K*L/(0.4*sqrt(A)) <= 200 for catalog entry k: L <= 80*sqrt(A), that is
\* L <= 0 or L^2 <= 6400 * A.
SlendernessWithin(L, k) ==
    \/ L[1] <= 0
    \/ RLeq(RMul(L, L), RMul(I(6400), hss_sizes[k].A))

\* P_total/(phi_c*F_y*A) + beam_load*(B_hss/2 - beam_width/2)/(phi_c*F_y*S)
\* for catalog entry k.
RatioOf(a, k) ==
    LET c == hss_sizes[k]
        e == RSub(RDiv(c.B_hss, I(2)), RDiv(a.beam_width, I(2)))
    IN  RAdd(RDiv(a.P_total, RMul(RMul(a.phi_c, a.F_y), c.A)),
             RDiv(RMul(a.beam_load, e), RMul(RMul(a.phi_c, a.F_y), c.S)))

Adequate(a, k) == SlendernessWithin(a.L, k) /\ RLeq(RatioOf(a, k), R(9, 10))

\* C1: select_hss_size returns the first catalog entry, in catalog order,
\* whose slenderness is <= 200 and whose interaction ratio is <= 0.9 (every
\* entry before it fails one of the two), and the none-tuple exactly when
\* no entry satisfies both.
C1_FirstAdequate ==
    sel.called =>
        LET r == sel.res
        IN  /\ r = NoSection <=> ~\E k \in 1..Len(hss_sizes) : Adequate(sel, k)
            /\ r # NoSection =>
                  /\ r.idx \in 1..Len(hss_sizes)
                  /\ Adequate(sel, r.idx)
                  /\ \A k \in 1..(r.idx - 1) :
                        ~SlendernessWithin(sel.L, k) \/ RLt(R(9, 10), RatioOf(sel, k))
                  /\ <<r.hss, r.A, r.S, r.B_hss>> =
                        <<hss_sizes[r.idx].hss, hss_sizes[r.idx].A,
                          hss_sizes[r.idx].S, hss_sizes[r.idx].B_hss>>

\* A section past the second entry was returned: the first entry fails
\* slenderness, the second passes it and fails interaction.
C1_Witness ==
    /\ sel.called
    /\ sel.res # NoSection
    /\ sel.res.idx >= 3
    /\ ~SlendernessWithin(sel.L, 1)
    /\ SlendernessWithin(sel.L, 2) /\ RLt(R(9, 10), RatioOf(sel, 2))

\* C5: for a returned section the interaction ratio is <= 0.9, so below
\* 1.0, and the slenderness is <= 200.
C5_SafetyMargin ==
    (sel.called /\ sel.res # NoSection) =>
        /\ RLeq(RatioOf(sel, sel.res.idx), R(9, 10))
        /\ RLt(RatioOf(sel, sel.res.idx), I(1))
        /\ SlendernessWithin(sel.L, sel.res.idx)

\* A section was returned whose ratio uses more than 0.8 of the limit 0.9,
\* after an entry was rejected with a ratio between 0.9 and 1.0.
C5_Witness ==
    /\ sel.called
    /\ sel.res # NoSection
    /\ sel.res.idx >= 2
    /\ RLt(R(8, 10), RatioOf(sel, sel.res.idx))
    /\ SlendernessWithin(sel.L, 1)
    /\ RLt(R(9, 10), RatioOf(sel, 1)) /\ RLeq(RatioOf(sel, 1), I(1))

\* C10 as stated: with P_total >= 0, beam_load >= 0 and beam_width > 0, a
\* returned section satisfies the axial check P_total <= 0.9*phi_c*F_y*A.
C10_AxialCheck ==
    (/\ sel.called
     /\ sel.res # NoSection
     /\ sel.P_total[1] >= 0 /\ sel.beam_load[1] >= 0 /\ sel.beam_width[1] > 0) =>
        RLeq(sel.P_total,
             RMul(R(9, 10), RMul(RMul(sel.phi_c, sel.F_y), sel.res.A)))

\* --- calculate_plates, called alone (SpecPlates)

\* The failures the arguments of a call lead to: a division by a zero
\* beam_width, lvl_bearing or load_factor; the zero thickness denominator;
\* a negative quotient under the square root; a bearing stress above
\* lvl_bearing.
FailsAsListed(a) ==
    \/ a.beam_width[1] = 0
    \/ a.lvl_bearing[1] = 0
    \/ a.load_factor[1] = 0
    \/ LET P_s == RDiv(a.P_beam, a.load_factor)
           N   == BearingLength(P_s, a.lvl_bearing, a.beam_width, a.B_hss)
           B   == CapWidth(a.B_hss, a.beam_width)
           den == RMul(RMul(RMul(a.phi, a.F_y), B), N)
       IN  \/ den[1] = 0
           \/ RDiv(RMul(I(2), RAdd(a.P_beam, a.P_upper)), den)[1] < 0
           \/ RLt(a.lvl_bearing, RDiv(RMul(P_s, I(1000)), RMul(a.beam_width, N)))

\* C7: every call returns a mapping: either one whose only key is Error,
\* or one with exactly the four keys and no Error; each listed failure gives
\* the Error mapping; with none of them (and a column of non-zero width)
\* the four keys are returned; a success never reports a bearing stress
\* above lvl_bearing.
C7_ErrorsAreMappings ==
    pl.called =>
        /\ IsError(pl.res) \/ IsDesign(pl.res)
        /\ ~(IsError(pl.res) /\ IsDesign(pl.res))
        /\ FailsAsListed(pl) => IsError(pl.res)
        /\ (~FailsAsListed(pl) /\ pl.B_hss[1] # 0) => IsDesign(pl.res)
        /\ IsDesign(pl.res) => RLeq(pl.res["LVL Bearing Stress"], pl.lvl_bearing)

\* A call whose bearing stress exceeded lvl_bearing returned the Error
\* mapping.
C7_Witness ==
    /\ pl.called
    /\ IsError(pl.res)
    /\ pl.res["Error"] = StressExceeded

\* The cantilever length of a call's cap plate, and the quotient under the
\* root of its thickness.
LengthOf(a) ==
    CantileverLength(CapWidth(a.B_hss, a.beam_width), a.B_hss, a.beam_width,
                     a.beam_offset)

\* C9: in a non-error result t_cap is a multiple of 1/8, >= 3/8, and
\* t_cap^2 * phi*F_y*B*N >= 2*l^2*(P_beam+P_upper); t_bearing is a multiple
\* of 1/8, >= 1.0, and 0.75*1.8*F_y*B_hss*t_bearing >= P_upper/2.
C9_ThicknessNotUnderRaw ==
    (pl.called /\ IsDesign(pl.res)) =>
        LET B         == pl.res["Cap Plate"][1]
            N         == pl.res["Cap Plate"][2]
            t_cap     == pl.res["Cap Plate"][3]
            t_bearing == pl.res["Bearing Plates"][3]
            l         == LengthOf(pl)
        IN  /\ IsMultipleOf(t_cap, 8)
            /\ RLeq(R(3, 8), t_cap)
            /\ RLeq(RMul(RMul(I(2), RMul(l, l)), RAdd(pl.P_beam, pl.P_upper)),
                    RMul(RMul(t_cap, t_cap), RMul(RMul(RMul(pl.phi, pl.F_y), B), N)))
            /\ IsMultipleOf(t_bearing, 8)
            /\ RLeq(I(1), t_bearing)
            /\ RLeq(RDiv(pl.P_upper, I(2)),
                    RMul(RMul(RMul(RMul(R(75, 100), R(18, 10)), pl.F_y), pl.B_hss),
                         t_bearing))

\* A non-error result whose cap thickness was bumped (the nearest eighth
\* lies below the raw value: raw > t_cap - 1/8, raw < t_cap - 1/16) and
\* whose bearing plates were resized above 1.0 in.
C9_Witness ==
    /\ pl.called
    /\ IsDesign(pl.res)
    /\ LET B     == pl.res["Cap Plate"][1]
           N     == pl.res["Cap Plate"][2]
           t_cap == pl.res["Cap Plate"][3]
           l     == LengthOf(pl)
           near  == RSub(t_cap, R(1, 16))
       IN  /\ RLt(R(1, 2), t_cap)
           /\ RLt(RMul(RMul(I(2), RMul(l, l)), RAdd(pl.P_beam, pl.P_upper)),
                  RMul(RMul(near, near), RMul(RMul(RMul(pl.phi, pl.F_y), B), N)))
    /\ RLt(I(1), pl.res["Bearing Plates"][3])

\* C8 as stated: in a non-error result the weld size is a multiple of 1/16,
\* is 3/16 when the demand does not exceed the capacity of a 3/16 weld, and
\* otherwise its capacity 0.75*0.707*size*0.6*70 is >= the demand
\* max((P_beam+P_upper)/(4*B_hss), P_upper/(4*B_hss)).
C8_WeldCoversDemand ==
    (pl.called /\ IsDesign(pl.res)) =>
        LET size   == pl.res["Weld Size"]
            total  == RDiv(RAdd(pl.P_beam, pl.P_upper), RMul(I(4), pl.B_hss))
            upper  == RDiv(pl.P_upper, RMul(I(4), pl.B_hss))
            demand == RMax(total, upper)
            perIn  == RMul(RMul(RMul(R(75, 100), R(707, 1000)), R(6, 10)), I(70))
        IN  /\ IsMultipleOf(size, 16)
            /\ RLeq(demand, RMul(perIn, R(3, 16))) => size = R(3, 16)
            /\ RLt(RMul(perIn, R(3, 16)), demand) => RLeq(demand, RMul(perIn, size))

\* --- the bearing lines in floating point (SpecFloat)

\* C6 as stated: for positive P_beam, beam_width, B_hss, lvl_bearing and
\* load_factor the bearing length N is a multiple of 1/4, is >= B_hss, and
\* the recomputed bearing stress is <= lvl_bearing: the bearing-stress
\* error is not raised.
C6_BearingStressWithin ==
    fb.called =>
        /\ IsMultipleOf(fb.N, 4)
        /\ RLeq(fb.B_hss, fb.N)
        /\ RLeq(fb.bearing_stress, fb.lvl_bearing)
        /\ ~fb.raised

====
